---- MODULE Spec2Model ----
(***************************************************************************)
(* Real-time session and message-delivery subsystem of chat-clone:         *)
(* backend/websocket_manager.py (ConnectionManager) and the websocket      *)
(* endpoint and handle_send_message of backend/main.py.                    *)
(*                                                                         *)
(* One asyncio task runs per connection.  A step of the model is what one  *)
(* task does between two of its suspension points (await websocket.accept, *)
(* await websocket.receive_json, await websocket.send_json); the database  *)
(* calls are synchronous and so belong to the step that makes them.        *)
(***************************************************************************)
EXTENDS Integers, Sequences, FiniteSets, TLC

VARIABLES
    pc,                  \* the await each connection's task is suspended on
    transport,           \* the connection's socket: "up", "lost" or "closed"
    closed_with,         \* code and reason of the websocket.close() the endpoint made
    accepted,            \* websocket.accept() was performed
    active_connections,  \* ConnectionManager.active_connections
    user_connections,    \* ConnectionManager.user_connections
    user_websockets,     \* ConnectionManager.user_websockets
    bc,                  \* local variables of a running broadcast_to_conversation
    pend,                \* frame of send_personal_message in flight, and what follows
    db_messages,         \* rows of table messages
    db_reads,            \* rows of table message_reads
    conv_updated,        \* conversations.updated_at, as a count of the updates
    sessions,            \* database sessions opened for a connection and not closed
    nrecv,               \* number of frames received on each connection
    received,            \* every frame a client sent, by connection and number
    sent,                \* every frame the server tried to send
    fanouts              \* every call of broadcast_to_conversation that has ended

vars == <<pc, transport, closed_with, accepted, active_connections,
          user_connections, user_websockets, bc, pend, db_messages, db_reads,
          conv_updated, sessions, nrecv, received, sent, fanouts>>

None == "-"

\* The lifecycle state of a connection, read off the place its task is at.
state(c) ==
    CASE pc[c] = "start" -> "Connecting"
      [] pc[c] = "accept" -> "Authenticated"
      [] pc[c] = "register" -> "Authorized"
      [] pc[c] = "done" -> "Closed"
      [] OTHER -> "Active"

\* ------------------------------------------------------------------ bounds

\* Frames received in one run, all connections together.
MaxFrames == 2

\* Transports that break in one run.
MaxDrops  == 1

\* --------------------------------------------------------- the world

Users == {"alice", "bob", "carol", "dave"}

\* Rows of table conversations and of table conversation_participants.
Conversations == {"k1", "k2"}

Participants == {<<"k1", "alice">>, <<"k1", "bob">>, <<"k1", "carol">>,
                 <<"k2", "alice">>, <<"k2", "bob">>}

\* The connections that may be opened: the token each presents and the
\* conversation of its URL.  "t:<user>" is a valid token of that user.
AllConns == {"a1", "a2", "b1", "b2", "c1", "x1", "x2", "x3", "x4", "x5"}

token == [c \in AllConns |->
            CASE c \in {"a1", "a2", "x3"} -> "t:alice"
              [] c \in {"b1", "b2"} -> "t:bob"
              [] c = "c1" -> "t:carol"
              [] c = "x1" -> None          \* no token parameter
              [] c = "x2" -> "garbage"     \* jwt.decode fails
              [] c = "x4" -> "t:dave"      \* a user, not a participant of k1
              [] c = "x5" -> "t:erin"]     \* valid signature, no such user

conversation_id == [c \in AllConns |->
                      CASE c = "x3" -> "k0"
                        [] c = "b2" -> "k2"
                        [] OTHER -> "k1"]

\* The keys of active_connections, a defaultdict: any conversation id of a
\* URL.  "k0" is the id of no conversation.
ConvIds == Conversations \cup {"k0"}

\* websocket.close(code=1008, reason=...), the only close the endpoint makes.
PolicyViolation == 1008

Close(reason) == [code |-> PolicyViolation, reason |-> reason]

NotClosed == [code |-> 0, reason |-> None]

\* jwt.decode and the users query of verify_token_websocket: the user, or the
\* detail of the HTTPException.
verify_token_websocket(t) ==
    CASE t = "t:alice" -> [ok |-> TRUE, user |-> "alice", detail |-> None]
      [] t = "t:bob"   -> [ok |-> TRUE, user |-> "bob", detail |-> None]
      [] t = "t:carol" -> [ok |-> TRUE, user |-> "carol", detail |-> None]
      [] t = "t:dave"  -> [ok |-> TRUE, user |-> "dave", detail |-> None]
      [] t = "t:erin"  -> [ok |-> FALSE, user |-> None, detail |-> "User not found"]
      [] OTHER         -> [ok |-> FALSE, user |-> None, detail |-> "Invalid Token"]

\* The user the endpoint holds for a connection once its token is verified.
user(c) == verify_token_websocket(token[c]).user

\* --------------------------------------------------------- identifiers

\* uuid.UUID(s): the identifier a string spells, or Invalid (ValueError).
\* "M1" is another spelling (upper case) of the identifier that "m1" spells.
Invalid == "ValueError"

UUID(s) ==
    CASE s \in {"m1", "M1"} -> "uuid:1"
      [] s \in {"m2", "M2"} -> "uuid:2"
      [] s = "m9" -> "uuid:9"
      [] OTHER -> Invalid

\* str(uuid): the canonical, lower-case spelling.
StrUUID(u) ==
    CASE u = "uuid:1" -> "m1"
      [] u = "uuid:2" -> "m2"
      [] u = "uuid:9" -> "m9"
      [] OTHER -> None

\* --------------------------------------------------------- frames

\* A frame the server sends; a field the frame does not carry is None.
NoFrame ==
    [type |-> None, message_id |-> None, status |-> None,
     server_message_id |-> None, duplicated |-> FALSE, error |-> None,
     conversation_id |-> None, user_id |-> None, id |-> None,
     msg_conversation_id |-> None, sender_id |-> None, content |-> None,
     reply_to |-> None, is_online |-> FALSE]

\* A frame a client sends: type None is a frame without the "type" key.
InFrame(t, mid, content, reply_to) ==
    [type |-> t, message_id |-> mid, content |-> content, reply_to |-> reply_to]

\* ------------------------------------------------------- the registry

Registry == [ac |-> active_connections, uc |-> user_connections,
             uw |-> user_websockets]

\* ConnectionManager.connect, lines 28-30: the three insertions.
connect_add(reg, websocket, conv, user_id) ==
    [ac |-> [reg.ac EXCEPT ![conv] = @ \cup {websocket}],
     uc |-> [reg.uc EXCEPT ![websocket] = user_id],
     uw |-> [reg.uw EXCEPT ![user_id] = @ \cup {websocket}]]

\* disconnect that forgets the user index.
disconnect_conversation_only(reg, websocket, conv) ==
    [ac |-> [reg.ac EXCEPT ![conv] = @ \ {websocket}],
     uc |-> [reg.uc EXCEPT ![websocket] = None],
     uw |-> reg.uw]

\* disconnect that empties the conversation's set when the connection is
\* not in it.
disconnect_emptying(reg, websocket, conv) ==
    LET ac1 == IF websocket \in reg.ac[conv]
               THEN [reg.ac EXCEPT ![conv] = @ \ {websocket}]
               ELSE [reg.ac EXCEPT ![conv] = {}]
    IN  IF reg.uc[websocket] # None
        THEN [ac |-> ac1,
              uc |-> [reg.uc EXCEPT ![websocket] = None],
              uw |-> [reg.uw EXCEPT ![reg.uc[websocket]] = @ \ {websocket}]]
        ELSE [ac |-> ac1, uc |-> reg.uc, uw |-> reg.uw]

\* ConnectionManager.disconnect.
disconnect(reg, websocket, conv) ==
    LET ac1 == IF websocket \in reg.ac[conv]
               THEN [reg.ac EXCEPT ![conv] = @ \ {websocket}]
               ELSE reg.ac
    IN  IF reg.uc[websocket] # None
        THEN [ac |-> ac1,
              uc |-> [reg.uc EXCEPT ![websocket] = None],
              uw |-> [reg.uw EXCEPT ![reg.uc[websocket]] = @ \ {websocket}]]
        ELSE [ac |-> ac1, uc |-> reg.uc, uw |-> reg.uw]

\* The second loop of broadcast_to_conversation: disconnect every member of
\* the set of failed connections.
RECURSIVE disconnect_all(_, _, _)
disconnect_all(reg, failed, conv) ==
    IF failed = {} THEN reg
    ELSE LET x == CHOOSE y \in failed : TRUE
         IN  disconnect_all(disconnect(reg, x, conv), failed \ {x}, conv)

\* ------------------------------------------- broadcast_to_conversation

\* The local variables of a call of broadcast_to_conversation that is
\* suspended in "await connection.send_json(message)": the arguments, the
\* set the iterator was created on (its size is what the iterator checks on
\* every step), the connections visited, the set "disconnected", the
\* connection the pending send goes to, and the caller.
NoBc ==
    [message |-> NoFrame, conv |-> None, exclude_websocket |-> None,
     exclude_user_id |-> None, snap |-> {}, seen |-> {}, disconnected |-> {},
     cur |-> None, origin |-> None, n |-> 0]

NoPend == [reply |-> NoFrame, then |-> NoFrame, echo |-> None, n |-> 0]

\* Lines 68-71: the connections the loop passes over.
Skipped(reg, b, connection) ==
    \/ connection = b.exclude_websocket
    \/ b.exclude_user_id # None /\ reg.uc[connection] = b.exclude_user_id

\* The set iterator of line 67 raises RuntimeError ("Set changed size during
\* iteration") when the set's size differs from the size at its creation.
SizeChanged(reg, b) == Cardinality(reg.ac[b.conv]) # Cardinality(b.snap)

\* The members the iterator still has to yield.  A member added while the
\* loop was suspended (with another one removed, so that the size is the
\* same) lies before or after the iterator's position in the hash table: it
\* may be yielded or not.
MustVisit(reg, b) == (b.snap \cap reg.ac[b.conv]) \ b.seen

MayVisit(reg, b) == (reg.ac[b.conv] \ b.snap) \ b.seen

Targets(reg, b, X) == {x \in X : ~Skipped(reg, b, x)}

\* The connections a call of broadcast_to_conversation owes the frame when
\* it ends: those that were in the conversation's set when it started, are
\* still in it, and are not excluded.
Owed(reg, b) == Targets(reg, b, b.snap \cap reg.ac[b.conv])

\* The record of a call that has ended, by returning or by raising.
Fanout(c, reg, b, raises) ==
    [src |-> c, n |-> b.n, origin |-> b.origin, type |-> b.message.type,
     snap |-> b.snap, owed |-> Owed(reg, b), failed |-> b.disconnected,
     raised |-> raises]

\* What a task does with the registry and its own position when its run
\* ends: the endpoint's handlers of lines 205-211.
TaskEnds(c, reg, tr, unregister) ==
    /\ pc' = [pc EXCEPT ![c] = "done"]
    /\ transport' = [tr EXCEPT ![c] = IF @ = "up" THEN "closed" ELSE @]
    /\ sessions' = [sessions EXCEPT ![c] = @ - 1]
    /\ LET r == IF unregister THEN disconnect(reg, c, conversation_id[c]) ELSE reg
       IN  /\ active_connections' = r.ac
           /\ user_connections' = r.uc
           /\ user_websockets' = r.uw
    /\ bc' = [bc EXCEPT ![c] = NoBc]
    /\ pend' = [pend EXCEPT ![c] = NoPend]

\* Suspend task c in send_personal_message(reply, websocket); "then" is the
\* frame handle_send_message broadcasts afterwards, NoFrame if none.
SendPersonal(c, reg, tr, reply, then, echo, n) ==
    /\ pc' = [pc EXCEPT ![c] = "ack"]
    /\ pend' = [pend EXCEPT ![c] =
                  [reply |-> reply, then |-> then, echo |-> echo, n |-> n]]
    /\ bc' = [bc EXCEPT ![c] = NoBc]
    /\ active_connections' = reg.ac
    /\ user_connections' = reg.uc
    /\ user_websockets' = reg.uw
    /\ transport' = tr
    /\ UNCHANGED sessions

\* An error frame that echoes no identifier.
MessageError(echo, error) ==
    [NoFrame EXCEPT !.type = "message_error", !.status = "error", !.error = error]

\* The error acknowledgment of lines 238-243 and 353-358.
ErrorAck(echo, error) ==
    [NoFrame EXCEPT !.type = "message_ack", !.message_id = echo,
                    !.status = "error", !.error = error]

\* An exception leaves broadcast_to_conversation: the second loop (lines
\* 79-81) is not run.  In manager.connect (line 147) nothing catches it
\* before "finally"; in handle_send_message line 350 catches it; in the
\* typing and read_receipt branches line 207 catches it.
BroadcastRaises(c, reg, tr, b) ==
    /\ fanouts' = fanouts \cup {Fanout(c, reg, b, TRUE)}
    /\ CASE b.origin = "connect" -> TaskEnds(c, reg, tr, FALSE)
         [] b.origin = "msg" ->
              SendPersonal(c, reg, tr, ErrorAck(pend[c].echo, "RuntimeError"),
                           NoFrame, pend[c].echo, b.n)
         [] OTHER -> TaskEnds(c, reg, tr, TRUE)

\* The first loop is exhausted: lines 79-81, then back to the caller, which
\* goes on to "await websocket.receive_json()".
BroadcastReturns(c, reg, tr, b) ==
    LET r == disconnect_all(reg, b.disconnected, b.conv)
    IN  /\ active_connections' = r.ac
        /\ user_connections' = r.uc
        /\ user_websockets' = r.uw
        /\ pc' = [pc EXCEPT ![c] = "recv"]
        /\ bc' = [bc EXCEPT ![c] = NoBc]
        /\ pend' = [pend EXCEPT ![c] = NoPend]
        /\ transport' = tr
        /\ fanouts' = fanouts \cup {Fanout(c, reg, b, FALSE)}
        /\ UNCHANGED sessions

\* The first loop up to its next "await connection.send_json(message)".
BroadcastLoop(c, reg, tr, b) ==
    IF SizeChanged(reg, b)
    THEN BroadcastRaises(c, reg, tr, b)
    ELSE \/ \E x \in Targets(reg, b, MustVisit(reg, b) \cup MayVisit(reg, b)) :
              /\ pc' = [pc EXCEPT ![c] = "send"]
              /\ bc' = [bc EXCEPT ![c] = [b EXCEPT !.cur = x, !.seen = @ \cup {x}]]
              /\ active_connections' = reg.ac
              /\ user_connections' = reg.uc
              /\ user_websockets' = reg.uw
              /\ transport' = tr
              /\ UNCHANGED <<sessions, fanouts, pend>>
         \/ /\ Targets(reg, b, MustVisit(reg, b)) = {}
            /\ BroadcastReturns(c, reg, tr, b)

\* broadcast_to_conversation up to its first await.
broadcast_to_conversation(c, reg, tr, message, conv, exclude_websocket, exclude_user_id, origin, n) ==
    BroadcastLoop(c, reg, tr,
        [message |-> message, conv |-> conv,
         exclude_websocket |-> exclude_websocket,
         exclude_user_id |-> exclude_user_id,
         snap |-> reg.ac[conv], seen |-> {}, disconnected |-> {},
         cur |-> None, origin |-> origin, n |-> n])

\* ------------------------------------------------- websocket_endpoint

\* An entry of the log of frames: what was sent, to which connection, by the
\* task of which connection while it handled its n-th frame (0: while it
\* registered), and whether the send succeeded.
Entry(to, src, n, frame, ok) ==
    [to |-> to, src |-> src, n |-> n, frame |-> frame, ok |-> ok]

\* A gate that only looks whether a token is present.
TokenPresent(c) == token[c] # None

\* Lines 84 and 91-101: a token is present and verify_token_websocket returns.
TokenVerified(c) == token[c] # None /\ verify_token_websocket(token[c]).ok

\* Line 113.
FindConversation(conv) == conv \in Conversations

\* A participant lookup that filters on the conversation alone.
FindAnyParticipant(conv, user_id) == \E p \in Participants : p[1] = conv

\* Lines 130-136.
FindParticipant(conv, user_id) == <<conv, user_id>> \in Participants

\* Lines 81-101: the token is checked, and the task then waits in
\* "await websocket.accept()".  verify_token_websocket opens a database
\* session (line 62) once the token decodes.
Authenticate(c) ==
    /\ pc[c] = "start"
    /\ LET v == verify_token_websocket(token[c])
       IN  IF TokenVerified(c)
           THEN /\ pc' = [pc EXCEPT ![c] = "accept"]
                /\ sessions' = [sessions EXCEPT ![c] = @ + 1]
                /\ UNCHANGED <<closed_with, transport>>
           ELSE /\ pc' = [pc EXCEPT ![c] = "done"]
                /\ transport' = [transport EXCEPT ![c] = "closed"]
                /\ closed_with' = [closed_with EXCEPT ![c] =
                      CASE token[c] = None -> Close("No token provided")
                        [] v.detail = "User not found" ->
                             Close("Unauthorized: User not found")
                        [] OTHER -> Close("Unauthorized: Invalid Token")]
                /\ sessions' = [sessions EXCEPT ![c] =
                      IF token[c] # None /\ v.detail = "User not found"
                      THEN @ + 1 ELSE @]
    /\ UNCHANGED <<accepted, active_connections, user_connections,
                   user_websockets, bc, pend, db_messages, db_reads,
                   conv_updated, nrecv, received, sent, fanouts>>

\* Lines 104-145: the accept is acknowledged, a session is opened, and the
\* conversation and the participant are looked up.
Authorize(c) ==
    /\ pc[c] = "accept"
    /\ accepted' = [accepted EXCEPT ![c] = TRUE]
    /\ IF FindConversation(conversation_id[c])
          /\ FindParticipant(conversation_id[c], user(c))
       THEN /\ pc' = [pc EXCEPT ![c] = "register"]
            /\ sessions' = [sessions EXCEPT ![c] = @ + 1]
            /\ UNCHANGED <<closed_with, transport>>
       ELSE /\ pc' = [pc EXCEPT ![c] = "done"]
            /\ transport' = [transport EXCEPT ![c] = "closed"]
            /\ closed_with' = [closed_with EXCEPT ![c] =
                  IF ~FindConversation(conversation_id[c])
                  THEN Close("Conversation not found")
                  ELSE Close("Not a participant")]
            /\ UNCHANGED sessions      \* opened at line 107, closed at line 211
    /\ UNCHANGED <<active_connections, user_connections, user_websockets, bc,
                   pend, db_messages, db_reads, conv_updated, nrecv, received, sent,
                   fanouts>>

\* The presence frame of broadcast_presence.
PresenceFrame(conv, user_id, is_online) ==
    [NoFrame EXCEPT !.type = "presence", !.conversation_id = conv,
                    !.user_id = user_id, !.is_online = is_online]

\* Line 147, manager.connect: the insertions, then broadcast_presence up to
\* its first send.  (The lookups of Authorize read nothing that any task
\* writes, so running them in a step of their own adds no behaviour.)
Register(c) ==
    /\ pc[c] = "register"
    /\ broadcast_to_conversation(c,
          connect_add(Registry, c, conversation_id[c], user(c)), transport,
          PresenceFrame(conversation_id[c], user(c), TRUE), conversation_id[c],
          c, None, "connect", 0)
    /\ UNCHANGED <<closed_with, accepted, db_messages, db_reads, conv_updated,
                   nrecv, received, sent>>

\* ------------------------------------------------ handle_send_message

\* A lookup that finds no row.
FindNothing(rows, message_uuid) == {}

\* Line 249: db.query(Message).filter(Message.id == message_uuid).
FindMessageById(rows, message_uuid) == {e \in rows : e.id = message_uuid}

\* Lines 259-275 and 326-342: the new_message frame of a stored row.
NewMessageFrame(conv, e) ==
    [NoFrame EXCEPT !.type = "new_message", !.conversation_id = conv,
                    !.id = StrUUID(e.id),
                    !.msg_conversation_id = e.conversation_id,
                    !.sender_id = e.sender_id, !.content = e.content,
                    !.reply_to = IF e.reply_to = None THEN None
                                 ELSE StrUUID(e.reply_to)]

\* Lines 251-257 and 317-323: the success acknowledgment.
SuccessAck(echo, e, duplicated) ==
    [NoFrame EXCEPT !.type = "message_ack", !.message_id = echo,
                    !.status = "success", !.server_message_id = StrUUID(e.id),
                    !.duplicated = duplicated]

\* Lines 285-301: the row handle_send_message builds.
NewRow(c, data) ==
    [id |-> UUID(data.message_id), conversation_id |-> conversation_id[c],
     sender_id |-> user(c), content |-> data.content,
     reply_to |-> IF data.reply_to = None \/ UUID(data.reply_to) = Invalid
                  THEN None ELSE UUID(data.reply_to)]

\* Lines 303-310, db.add and db.commit: the primary key of messages (models.py
\* line 43) and the foreign key of reply_to (line 52) reject the row.
InsertFails(rows, row) ==
    \/ \E e \in rows : e.id = row.id
    \/ row.reply_to # None /\ \A e \in rows : e.id # row.reply_to

\* A handler that leaves the rejected row and the touched conversation in
\* place (no rollback).
handle_send_message_no_rollback(c, data, rows) ==
    LET keep(reply) == [rows |-> rows, touched |-> FALSE, reply |-> reply,
                        then |-> NoFrame]
    IN  CASE data.message_id = None ->
               keep([NoFrame EXCEPT !.type = "message_error",
                                    !.error = "message_id required",
                                    !.status = "error"])
          [] data.message_id # None /\ data.content = None ->
               keep(ErrorAck(data.message_id, "content required"))
          [] OTHER ->
               IF UUID(data.message_id) = Invalid
               THEN keep(ErrorAck(data.message_id, "ValueError"))
               ELSE LET existing == FindMessageById(rows, UUID(data.message_id))
                        row == NewRow(c, data)
                    IN  IF existing # {}
                        THEN LET e == CHOOSE e \in existing : TRUE
                             IN  [rows |-> rows, touched |-> FALSE,
                                  reply |-> SuccessAck(data.message_id, e, TRUE),
                                  then |-> NewMessageFrame(conversation_id[c], e)]
                        ELSE IF InsertFails(rows, row)
                        THEN [rows |-> rows \cup {row}, touched |-> TRUE,
                              reply |-> ErrorAck(data.message_id, "IntegrityError"),
                              then |-> NoFrame]
                        ELSE [rows |-> rows \cup {row}, touched |-> TRUE,
                              reply |-> SuccessAck(data.message_id, row, FALSE),
                              then |-> NewMessageFrame(conversation_id[c], row)]

\* A handler that stores the content of a resubmission over the stored one
\* and touches the conversation.
handle_send_message_upsert(c, data, rows) ==
    LET keep(reply) == [rows |-> rows, touched |-> FALSE, reply |-> reply,
                        then |-> NoFrame]
    IN  CASE data.message_id = None ->
               keep([NoFrame EXCEPT !.type = "message_error",
                                    !.error = "message_id required",
                                    !.status = "error"])
          [] data.message_id # None /\ data.content = None ->
               keep(ErrorAck(data.message_id, "content required"))
          [] OTHER ->
               IF UUID(data.message_id) = Invalid
               THEN keep(ErrorAck(data.message_id, "ValueError"))
               ELSE LET existing == FindMessageById(rows, UUID(data.message_id))
                        row == NewRow(c, data)
                    IN  IF existing # {}
                        THEN LET e == CHOOSE e \in existing : TRUE
                                 u == [e EXCEPT !.content = data.content]
                             IN  [rows |-> (rows \ {e}) \cup {u}, touched |-> TRUE,
                                  reply |-> SuccessAck(data.message_id, u, TRUE),
                                  then |-> NewMessageFrame(conversation_id[c], u)]
                        ELSE IF InsertFails(rows, row)
                        THEN keep(ErrorAck(data.message_id, "IntegrityError"))
                        ELSE [rows |-> rows \cup {row}, touched |-> TRUE,
                              reply |-> SuccessAck(data.message_id, row, FALSE),
                              then |-> NewMessageFrame(conversation_id[c], row)]

\* handle_send_message up to its first await, which is always a
\* send_personal_message: the rows of messages afterwards, whether the
\* conversation was touched, the frame sent to the submitter, and the frame
\* broadcast after it (NoFrame: none).
handle_send_message(c, data, rows) ==
    LET keep(reply) == [rows |-> rows, touched |-> FALSE, reply |-> reply,
                        then |-> NoFrame]
    IN  CASE data.message_id = None ->
               keep([NoFrame EXCEPT !.type = "message_error",
                                    !.error = "message_id required",
                                    !.status = "error"])
          [] data.message_id # None /\ data.content = None ->
               keep(ErrorAck(data.message_id, "content required"))
          [] OTHER ->
               IF UUID(data.message_id) = Invalid
               THEN keep(ErrorAck(data.message_id, "ValueError"))
               ELSE LET existing == FindMessageById(rows, UUID(data.message_id))
                        row == NewRow(c, data)
                    IN  IF existing # {}
                        THEN LET e == CHOOSE e \in existing : TRUE
                             IN  [rows |-> rows, touched |-> FALSE,
                                  reply |-> SuccessAck(data.message_id, e, TRUE),
                                  then |-> NewMessageFrame(conversation_id[c], e)]
                        ELSE IF InsertFails(rows, row)
                        THEN keep(ErrorAck(data.message_id, "IntegrityError"))
                        ELSE [rows |-> rows \cup {row}, touched |-> TRUE,
                              reply |-> SuccessAck(data.message_id, row, FALSE),
                              then |-> NewMessageFrame(conversation_id[c], row)]

\* The exclusion handle_send_message asks of the broadcast (lines 277-281 and
\* 344-348): no connection, and the submitting user.
MessageExclusion(c) == [websocket |-> None, user_id |-> user(c)]

\* The exclusion of the typing and read relays (lines 169-173, 200-204).
RelayExclusion(c) == [websocket |-> c, user_id |-> None]

\* ------------------------------------------------------ the receive loop

RECURSIVE Total(_, _)
Total(f, S) ==
    IF S = {} THEN 0
    ELSE LET x == CHOOSE y \in S : TRUE IN f[x] + Total(f, S \ {x})

TypingFrame(c) ==
    [NoFrame EXCEPT !.type = "typing", !.user_id = user(c),
                    !.conversation_id = conversation_id[c]]

ReadFrame(c, message_uuid) ==
    [NoFrame EXCEPT !.type = "read", !.message_id = StrUUID(message_uuid),
                    !.user_id = user(c)]

\* A row of message_reads (models.py lines 75-84), the query of lines
\* 177-183, and the clock: the number of frames received so far.
MessageRead(message_uuid, user_id, now) ==
    [message_id |-> message_uuid, user_id |-> user_id, read_at |-> now]

FindMessageRead(reads, message_uuid, user_id) ==
    {r \in reads : r.message_id = message_uuid /\ r.user_id = user_id}

utcnow == Total(nrecv, AllConns)

\* Lines 175-191 raise when message_id is missing (TypeError) or spells no
\* identifier (ValueError), and when the commit fails on the foreign key of
\* message_reads.message_id (models.py line 78).
ReadReceiptRaises(data, rows, reads, user_id) ==
    \/ data.message_id = None
    \/ UUID(data.message_id) = Invalid
    \/ /\ FindMessageRead(reads, UUID(data.message_id), user_id) = {}
       /\ FindMessageById(rows, UUID(data.message_id)) = {}

\* Lines 185-191: a receipt is added only when the query found none.
\* read_at defaults to the time of the insert (models.py line 80).
MarkRead(reads, message_uuid, user_id, now) ==
    IF FindMessageRead(reads, message_uuid, user_id) = {}
    THEN reads \cup {MessageRead(message_uuid, user_id, now)}
    ELSE reads

\* Line 151 returns a frame, and the task runs to its next await.
Receive(c, data) ==
    /\ pc[c] = "recv"
    /\ transport[c] = "up"
    /\ Total(nrecv, AllConns) < MaxFrames
    /\ nrecv' = [nrecv EXCEPT ![c] = @ + 1]
    /\ received' = received \cup {[conn |-> c, n |-> nrecv[c] + 1, data |-> data]}
    /\ LET n == nrecv[c] + 1
       IN  CASE data.type = "send_message" ->
                  LET r == handle_send_message(c, data, db_messages)
                  IN  /\ db_messages' = r.rows
                      /\ conv_updated' = [conv_updated EXCEPT ![conversation_id[c]] =
                                            IF r.touched THEN @ + 1 ELSE @]
                      /\ SendPersonal(c, Registry, transport, r.reply, r.then,
                                      data.message_id, n)
                      /\ UNCHANGED <<db_reads, fanouts>>
             [] data.type = "typing" ->
                  /\ broadcast_to_conversation(c, Registry, transport, TypingFrame(c),
                        conversation_id[c], RelayExclusion(c).websocket,
                        RelayExclusion(c).user_id, "relay", n)
                  /\ UNCHANGED <<db_messages, db_reads, conv_updated>>
             [] data.type = "read_receipt" ->
                  IF ReadReceiptRaises(data, db_messages, db_reads, user(c))
                  THEN /\ TaskEnds(c, Registry, transport, TRUE)
                       /\ UNCHANGED <<db_messages, db_reads, conv_updated, fanouts>>
                  ELSE /\ db_reads' = MarkRead(db_reads, UUID(data.message_id),
                                               user(c), utcnow)
                       /\ broadcast_to_conversation(c, Registry, transport,
                             ReadFrame(c, UUID(data.message_id)),
                             conversation_id[c], RelayExclusion(c).websocket,
                             RelayExclusion(c).user_id, "relay", n)
                       /\ UNCHANGED <<db_messages, conv_updated>>
             [] data.type = None ->          \* data["type"]: KeyError
                  /\ TaskEnds(c, Registry, transport, TRUE)
                  /\ UNCHANGED <<db_messages, db_reads, conv_updated, fanouts>>
             [] OTHER ->                     \* no branch: back to line 151
                  UNCHANGED <<pc, transport, sessions, active_connections,
                              user_connections, user_websockets, bc, pend,
                              db_messages, db_reads, conv_updated, fanouts>>
    /\ UNCHANGED <<closed_with, accepted, sent>>

\* The transports that have broken so far.
Drops == Cardinality({x \in AllConns : transport[x] = "lost"})

\* The environment decides whether a send to connection x succeeds.  It
\* fails on a transport that is no longer up, and it may fail on one that
\* is up: the transport breaks then and stays broken.
SendOutcomes(x) ==
    {ok \in BOOLEAN : /\ ok => transport[x] = "up"
                      /\ (~ok /\ transport[x] = "up") => Drops < MaxDrops}

AfterSend(x, ok) ==
    IF ok THEN transport ELSE [transport EXCEPT ![x] = IF @ = "up" THEN "lost" ELSE @]

\* A disconnect after which the endpoint is entered again for the same
\* connection.
RecvReconnect(c) ==
    /\ pc[c] = "recv"
    /\ transport[c] = "lost" \/ Drops < MaxDrops
    /\ pc' = [pc EXCEPT ![c] = "start"]
    /\ transport' = [transport EXCEPT ![c] = "up"]
    /\ sessions' = [sessions EXCEPT ![c] = @ - 1]
    /\ LET r == disconnect(Registry, c, conversation_id[c])
       IN  /\ active_connections' = r.ac
           /\ user_connections' = r.uc
           /\ user_websockets' = r.uw
    /\ bc' = [bc EXCEPT ![c] = NoBc]
    /\ pend' = [pend EXCEPT ![c] = NoPend]
    /\ UNCHANGED <<closed_with, accepted, db_messages, db_reads, conv_updated,
                   nrecv, received, sent, fanouts>>

\* Line 151 raises WebSocketDisconnect (the client went away, or its
\* transport broke earlier): line 206, then line 211.
RecvDisconnect(c) ==
    /\ pc[c] = "recv"
    /\ transport[c] = "lost" \/ Drops < MaxDrops
    /\ TaskEnds(c, Registry, [transport EXCEPT ![c] = "lost"], TRUE)
    /\ UNCHANGED <<closed_with, accepted, db_messages, db_reads, conv_updated,
                   nrecv, received, sent, fanouts>>

\* A reply whose failure is handled like a failure inside the broadcast:
\* the connection is unregistered and its task ends.
AckFailureEnds(c) ==
    /\ pc[c] = "ack"
    /\ \E ok \in SendOutcomes(c) :
          /\ sent' = sent \cup {Entry(c, c, pend[c].n, pend[c].reply, ok)}
          /\ IF ~ok
             THEN /\ TaskEnds(c, Registry, AfterSend(c, ok), TRUE)
                  /\ UNCHANGED fanouts
             ELSE IF pend[c].then = NoFrame
             THEN /\ pc' = [pc EXCEPT ![c] = "recv"]
                  /\ pend' = [pend EXCEPT ![c] = NoPend]
                  /\ transport' = AfterSend(c, ok)
                  /\ UNCHANGED <<sessions, active_connections, user_connections,
                                 user_websockets, bc, fanouts>>
             ELSE broadcast_to_conversation(c, Registry, AfterSend(c, ok),
                     pend[c].then, conversation_id[c],
                     MessageExclusion(c).websocket,
                     MessageExclusion(c).user_id, "msg", pend[c].n)
    /\ UNCHANGED <<closed_with, accepted, db_messages, db_reads, conv_updated,
                   nrecv, received>>

\* A handler that starts its broadcast without having sent the reply.
BroadcastWithoutAck(c) ==
    /\ pc[c] = "ack"
    /\ sent' = sent
    /\ IF pend[c].then = NoFrame
       THEN /\ pc' = [pc EXCEPT ![c] = "recv"]
            /\ pend' = [pend EXCEPT ![c] = NoPend]
            /\ UNCHANGED <<transport, sessions, active_connections,
                           user_connections, user_websockets, bc, fanouts>>
       ELSE broadcast_to_conversation(c, Registry, transport,
               pend[c].then, conversation_id[c],
               MessageExclusion(c).websocket,
               MessageExclusion(c).user_id, "msg", pend[c].n)
    /\ UNCHANGED <<closed_with, accepted, db_messages, db_reads, conv_updated,
                   nrecv, received>>

\* The send of send_personal_message returns or raises (the exception is
\* logged and dropped, line 52); handle_send_message goes on to its
\* broadcast, if it has one, or returns to the receive loop.
AckDone(c) ==
    /\ pc[c] = "ack"
    /\ \E ok \in SendOutcomes(c) :
          /\ sent' = sent \cup {Entry(c, c, pend[c].n, pend[c].reply, ok)}
          /\ IF pend[c].then = NoFrame
             THEN /\ pc' = [pc EXCEPT ![c] = "recv"]
                  /\ pend' = [pend EXCEPT ![c] = NoPend]
                  /\ transport' = AfterSend(c, ok)
                  /\ UNCHANGED <<sessions, active_connections, user_connections,
                                 user_websockets, bc, fanouts>>
             ELSE broadcast_to_conversation(c, Registry, AfterSend(c, ok),
                     pend[c].then, conversation_id[c],
                     MessageExclusion(c).websocket,
                     MessageExclusion(c).user_id, "msg", pend[c].n)
    /\ UNCHANGED <<closed_with, accepted, db_messages, db_reads, conv_updated,
                   nrecv, received>>

\* The send of line 74 returns, or raises and the connection is added to
\* "disconnected"; the loop runs on to its next send or to its end.
SendDone(c) ==
    /\ pc[c] = "send"
    /\ \E ok \in SendOutcomes(bc[c].cur) :
          LET b == bc[c]
          IN  /\ sent' = sent \cup {Entry(b.cur, c, b.n, b.message, ok)}
              /\ BroadcastLoop(c, Registry, AfterSend(b.cur, ok),
                    IF ok THEN b ELSE [b EXCEPT !.disconnected = @ \cup {b.cur}])
    /\ UNCHANGED <<closed_with, accepted, db_messages, db_reads, conv_updated,
                   nrecv, received>>

\* ------------------------------------------------------ specifications

\* The state in which the connections of "active" have registered and wait
\* for their first frame, and no other connection has been opened.  With
\* active = {} it is the state after construction.
InitFrom(active) ==
    /\ pc = [c \in AllConns |-> IF c \in active THEN "recv" ELSE "start"]
    /\ transport = [c \in AllConns |-> "up"]
    /\ closed_with = [c \in AllConns |-> NotClosed]
    /\ accepted = [c \in AllConns |-> c \in active]
    /\ active_connections =
          [k \in ConvIds |-> {c \in active : conversation_id[c] = k}]
    /\ user_connections = [c \in AllConns |-> IF c \in active THEN user(c) ELSE None]
    /\ user_websockets = [u \in Users |-> {c \in active : user(c) = u}]
    /\ bc = [c \in AllConns |-> NoBc]
    /\ pend = [c \in AllConns |-> NoPend]
    /\ db_messages = {}
    /\ db_reads = {}
    /\ conv_updated = [k \in Conversations |-> 0]
    /\ sessions = [c \in AllConns |-> IF c \in active THEN 2 ELSE 0]
    /\ nrecv = [c \in AllConns |-> 0]
    /\ received = {}
    /\ sent = {}
    /\ fanouts = {}

Init == InitFrom({})

NextOf(pool, frames) ==
    \E c \in pool :
        \/ Authenticate(c)
        \/ Authorize(c)
        \/ Register(c)
        \/ \E data \in frames : Receive(c, data)
        \/ RecvDisconnect(c)
        \/ AckDone(c)
        \/ SendDone(c)

\* The gate: from construction, two participants and the connections that
\* are turned away.
GateFrames ==
    {InFrame("typing", None, None, None),
     InFrame("send_message", None, None, None)}

Next == NextOf({"a1", "b1", "x1", "x2", "x3", "x4", "x5"}, GateFrames)

Spec == Init /\ [][Next]_vars

\* The receive loops of connections that are registered.
NextActive(pool, frames) ==
    \E c \in pool :
        \/ \E data \in frames : Receive(c, data)
        \/ RecvDisconnect(c)
        \/ AckDone(c)
        \/ SendDone(c)

\* Messages: two devices of alice and one of bob are connected; an identifier
\* is submitted in two spellings, and once without a content.
MsgFrames ==
    {InFrame("send_message", "m1", "hi", None),
     InFrame("send_message", "M1", "yo", None),
     InFrame("send_message", "m1", None, None)}

NextMsg == NextActive({"a1", "a2", "b1"}, MsgFrames)

SpecMsg == InitFrom({"a1", "a2", "b1"}) /\ [][NextMsg]_vars

\* Validation: alice and bob are connected; complete and incomplete frames.
ShapeFrames ==
    {InFrame("send_message", "m1", "hi", None),
     InFrame("send_message", "M1", "yo", None),
     InFrame("send_message", "m1", None, None),
     InFrame("send_message", None, "hi", None),
     InFrame("send_message", None, None, None)}

NextShape == NextActive({"a1", "b1"}, ShapeFrames)

SpecShape == InitFrom({"a1", "b1"}) /\ [][NextShape]_vars

\* Relays: the same connections, with typing and read_receipt frames.
RelayFrames ==
    {InFrame("send_message", "m1", "hi", None),
     InFrame("typing", None, None, None),
     InFrame("read_receipt", "m1", None, None)}

NextRelay == NextOf({"a1", "a2", "b1"}, RelayFrames)

SpecRelay == InitFrom({"a1", "b1"}) /\ [][NextRelay]_vars

\* Fan-out to the connections of two other users.
FanFrames ==
    {InFrame("send_message", "m1", "hi", None),
     InFrame("typing", None, None, None)}

NextFan == NextActive({"a1", "b1", "c1"}, FanFrames)

SpecFan == InitFrom({"a1", "b1", "c1"}) /\ [][NextFan]_vars

\* Persistence: alice and bob are connected; a reply to a message that is
\* not stored (the insert is rejected), and the same identifier without the
\* reference.
PersistFrames ==
    {InFrame("send_message", "m2", "re", "m9"),
     InFrame("send_message", "m2", "re", None)}

NextPersist == NextActive({"a1", "b1"}, PersistFrames)

SpecPersist == InitFrom({"a1", "b1"}) /\ [][NextPersist]_vars

\* Protocol: alice and bob are connected; frames without a type, read
\* receipts without an identifier or with a string that spells none, and a
\* send_message whose message_id spells none.
ProtoFrames ==
    {InFrame(None, None, None, None),
     InFrame("read_receipt", None, None, None),
     InFrame("read_receipt", "zz", None, None),
     InFrame("send_message", "zz", "hi", None),
     InFrame("typing", None, None, None)}

NextProto == NextActive({"a1", "b1"}, ProtoFrames)

SpecProto == InitFrom({"a1", "b1"}) /\ [][NextProto]_vars

\* Slow consumers: bob's client reads slowly, so that a send to b1 (the
\* "await connection.send_json" of websocket_manager.py line 74) may stay
\* suspended for ever.  Every other send completes, and so does every
\* reply to a submitter: the event loop runs each task that can go on.
Slow == {"b1"}

FanPool == {"a1", "b1", "c1"}

Prompt(c) == SendDone(c) /\ bc[c].cur \notin Slow

SpecSlow ==
    /\ InitFrom(FanPool)
    /\ [][NextFan]_vars
    /\ \A c \in FanPool : WF_vars(Prompt(c)) /\ WF_vars(AckDone(c))

\* Two conversations: alice and carol are connected to k1 and bob to k2,
\* and each may submit the same message identifier.
ConfineFrames ==
    {InFrame("send_message", "m1", "hi", None),
     InFrame("send_message", "m1", "yo", None)}

NextConfine == NextActive({"a1", "b2", "c1"}, ConfineFrames)

SpecConfine == InitFrom({"a1", "b2", "c1"}) /\ [][NextConfine]_vars

\* ================================================================ claims

\* A connection is in no index of the registry.
Unregistered(c) ==
    /\ \A k \in ConvIds : c \notin active_connections[k]
    /\ \A u \in Users : c \notin user_websockets[u]
    /\ user_connections[c] = None

\* The tokens that name a user of table users.
ValidTokens == {"t:alice", "t:bob", "t:carol", "t:dave"}

\* C4: a connection is in the conversation index of its conversation if and
\* only if it is in the user index of its user and in the connection-to-user
\* map, in every state (each register and unregister is one step).
RegistryInvariant ==
    \A c \in AllConns :
        LET inConv == c \in active_connections[conversation_id[c]]
            inUser == \E u \in Users : c \in user_websockets[u]
            inMap  == user_connections[c] # None
        IN  /\ inConv <=> inUser
            /\ inConv <=> inMap
            /\ inMap => c \in user_websockets[user_connections[c]]
            /\ \A k \in ConvIds : c \in active_connections[k] => k = conversation_id[c]
            /\ \A u \in Users : c \in user_websockets[u] => u = user_connections[c]

\* A connection registered during the run, one was unregistered by the
\* cleanup of a broadcast, and one by its own task.
RegistryWitness ==
    /\ \E c \in AllConns : c \in active_connections["k1"] /\ pc[c] = "recv"
    /\ \E f \in fanouts : ~f.raised /\ f.failed # {} /\ \A x \in f.failed : Unregistered(x)
    /\ \E c \in AllConns : pc[c] = "done" /\ Unregistered(c)

\* C6: a connection to a conversation that does not exist is closed with
\* "Conversation not found", one of a user who is no participant with "Not a
\* participant"; neither is ever registered, sends a presence frame or has
\* a frame handled.
AuthorizationOrdering ==
    \A c \in AllConns :
        LET known == token[c] \in ValidTokens
            noConv == known /\ conversation_id[c] \notin Conversations
            noPart == known /\ conversation_id[c] \in Conversations
                            /\ <<conversation_id[c], user(c)>> \notin Participants
        IN  (noConv \/ noPart) =>
              /\ state(c) \in {"Connecting", "Authenticated", "Closed"}
              /\ state(c) = "Closed" =>
                    closed_with[c].reason =
                       IF noConv THEN "Conversation not found" ELSE "Not a participant"
              /\ Unregistered(c)
              /\ \A e \in sent : e.src # c
              /\ \A r \in received : r.conn # c

\* Both connections were turned away while a participant was registered and
\* presence frames were being sent.
AuthorizationWitness ==
    /\ closed_with["x3"] = Close("Conversation not found")
    /\ closed_with["x4"] = Close("Not a participant")
    /\ "a1" \in active_connections["k1"]
    /\ \E e \in sent : e.frame.type = "presence" /\ e.to = "a1"

\* C7: a connection whose token is missing or not verified is closed with
\* the policy-violation code and is never accepted nor registered; only a
\* connection with a verified token is accepted, and the membership checks
\* are made only on an accepted connection.
CredentialBeforeAccept ==
    \A c \in AllConns :
        /\ token[c] \notin ValidTokens =>
              /\ ~accepted[c]
              /\ Unregistered(c)
              /\ state(c) \in {"Connecting", "Closed"}
              /\ state(c) = "Closed" =>
                    /\ closed_with[c].code = PolicyViolation
                    /\ closed_with[c].reason \in
                          {"No token provided", "Unauthorized: Invalid Token",
                           "Unauthorized: User not found"}
        /\ accepted[c] => token[c] \in ValidTokens
        /\ state(c) \in {"Authorized", "Active"} => accepted[c]
        /\ closed_with[c].reason \in {"Conversation not found", "Not a participant"}
              => accepted[c]

\* The three kinds of bad credential were turned away, and a connection
\* with a good one was accepted and went through the membership checks.
CredentialWitness ==
    /\ closed_with["x1"] = Close("No token provided")
    /\ closed_with["x2"] = Close("Unauthorized: Invalid Token")
    /\ closed_with["x5"] = Close("Unauthorized: User not found")
    /\ accepted["x4"] /\ closed_with["x4"] = Close("Not a participant")
    /\ accepted["a1"] /\ state("a1") = "Active"

\* The send_message frames received so far.
SendMessages == {r \in received : r.data.type = "send_message"}

\* What the server sent to the submitter while it handled frame r.
Answers(r) == {e \in sent : e.src = r.conn /\ e.n = r.n /\ e.to = r.conn}

IsSuccessAck(f) == f.type = "message_ack" /\ f.status = "success"

\* A frame with an identifier and a content.
Complete(data) == data.message_id # None /\ data.content # None

\* C10: a send_message frame without message_id is answered with a
\* message_error frame that echoes no identifier, whether it has a content or
\* not; one with message_id and without content with a message_ack of status
\* error that echoes the identifier.  Nothing is stored or broadcast for
\* either, and the connection stays active and registered.
ValidationShapes ==
    /\ \A r \in SendMessages :
          ~Complete(r.data) =>
             /\ \A e \in sent : (e.src = r.conn /\ e.n = r.n) =>
                   /\ e.to = r.conn
                   /\ IF r.data.message_id = None
                      THEN /\ e.frame.type = "message_error"
                           /\ e.frame.message_id = None
                           /\ e.frame.error = "message_id required"
                      ELSE /\ e.frame.type = "message_ack"
                           /\ e.frame.status = "error"
                           /\ e.frame.message_id = r.data.message_id
                           /\ e.frame.error = "content required"
             /\ \A f \in fanouts : ~(f.src = r.conn /\ f.n = r.n)
             /\ (nrecv[r.conn] = r.n) =>
                   /\ pc[r.conn] # "send"
                   /\ pc[r.conn] = "ack" => pend[r.conn].then = NoFrame
                   /\ transport[r.conn] = "up" =>
                         /\ pc[r.conn] \in {"ack", "recv"}
                         /\ state(r.conn) = "Active"
                         /\ r.conn \in active_connections[conversation_id[r.conn]]
                         /\ user_connections[r.conn] = user(r.conn)
    /\ \A e \in db_messages :
          \E r \in SendMessages :
             /\ Complete(r.data)
             /\ UUID(r.data.message_id) = e.id
             /\ r.data.content = e.content
             /\ user(r.conn) = e.sender_id
    /\ \A k \in Conversations :
          conv_updated[k] = Cardinality({e \in db_messages : e.conversation_id = k})

\* Both kinds of incomplete frame were received on one connection and
\* answered, and the connection waits for its next frame.
ValidationWitness ==
    \E c \in AllConns :
        /\ pc[c] = "recv" /\ nrecv[c] = 2
        /\ c \in active_connections[conversation_id[c]]
        /\ db_messages = {}
        /\ \E e \in sent : e.to = c /\ e.ok /\ e.frame.type = "message_error"
        /\ \E e \in sent : e.to = c /\ e.ok /\ e.frame.error = "content required"

\* The complete send_message frames that were answered.
Answered == {r \in SendMessages : Complete(r.data) /\ Answers(r) # {}}

\* The success acknowledgments sent so far.
SuccessAcks == {e \in sent : IsSuccessAck(e.frame)}

OneRowPerId == \A e1, e2 \in db_messages : e1.id = e2.id => e1 = e2

NewMessages == {e \in sent : e.frame.type = "new_message"}

\* The row a new_message frame carries is stored.
Persisted(frame) ==
    \E e \in db_messages :
        /\ StrUUID(e.id) = frame.id
        /\ e.content = frame.content
        /\ e.sender_id = frame.sender_id
        /\ e.conversation_id = frame.msg_conversation_id

\* C8 as stated: when a new_message frame of a message is sent to a
\* recipient, the success acknowledgment of the submission that stored the
\* message (the one not marked duplicated) has been sent, and the message
\* is stored.
AckBeforeBroadcastAsClaimed ==
    \A e \in NewMessages :
        /\ \E a \in SuccessAcks :
              /\ a.frame.server_message_id = e.frame.id
              /\ ~a.frame.duplicated
        /\ Persisted(e.frame)

\* C8: when a handler sends a new_message frame to a recipient, it has sent
\* the success acknowledgment of the frame it is handling to the submitting
\* connection, and the message is stored; so is the message of a broadcast
\* that is under way or waits for its acknowledgment to be sent.
AckBeforeBroadcast ==
    /\ \A e \in NewMessages :
          /\ \E a \in SuccessAcks :
                /\ a.src = e.src /\ a.n = e.n /\ a.to = e.src
                /\ a.frame.server_message_id = e.frame.id
          /\ Persisted(e.frame)
    /\ \A c \in AllConns :
          /\ (pc[c] = "send" /\ bc[c].message.type = "new_message") =>
                /\ \E a \in SuccessAcks :
                      /\ a.src = c /\ a.n = bc[c].n /\ a.to = c
                      /\ a.frame.server_message_id = bc[c].message.id
                /\ Persisted(bc[c].message)
          /\ (pc[c] = "ack" /\ pend[c].then # NoFrame) =>
                /\ IsSuccessAck(pend[c].reply)
                /\ Persisted(pend[c].then)

\* A first submission and a duplicate of it were both acknowledged and then
\* broadcast to a connection of the other user.
AckBeforeBroadcastWitness ==
    \E e1, e2 \in NewMessages :
        /\ e1.ok /\ e2.ok /\ e1.frame.id = e2.frame.id
        /\ \E a \in SuccessAcks :
              a.src = e1.src /\ a.n = e1.n /\ ~a.frame.duplicated /\ a.ok
        /\ \E a \in SuccessAcks :
              a.src = e2.src /\ a.n = e2.n /\ a.frame.duplicated /\ a.ok

\* A call of broadcast_to_conversation that has ended sent its frame to x.
Delivered(f, x) ==
    \E e \in sent : e.to = x /\ e.src = f.src /\ e.n = f.n /\ e.frame.type = f.type

\* The broadcasts of handle_send_message that have ended, and those of the
\* typing and read relays.
MessageFanouts == {f \in fanouts : f.origin = "msg"}

RelayFanouts == {f \in fanouts : f.origin = "relay"}

\* C2 as stated: a new_message frame is sent to no connection of the
\* submitting user, and a broadcast of handle_send_message that has ended has
\* sent it to every other connection that was registered in the conversation
\* from its start to its end.
MessageExclusionAsClaimed ==
    /\ \A e \in NewMessages : user(e.to) # user(e.src)
    /\ \A f \in MessageFanouts : \A x \in f.owed : Delivered(f, x)

\* C3 as stated: a typing or read frame is never sent to the connection it
\* came from, and a relay that has ended has sent it to every other
\* connection that was registered in the conversation from its start to its
\* end, the other connections of the same user included.
RelayExclusionAsClaimed ==
    /\ \A e \in sent : e.frame.type \in {"typing", "read"} => e.to # e.src
    /\ \A f \in RelayFanouts : \A x \in f.owed : Delivered(f, x)

\* C5 as stated: a broadcast in which the send to a recipient failed ends
\* without an exception, has sent the frame to each of its other recipients,
\* and leaves the failed connection in no index of the registry.
PartialFailureAsClaimed ==
    \A f \in fanouts :
        f.failed # {} =>
           /\ ~f.raised
           /\ \A x \in f.owed : Delivered(f, x)
           /\ \A x \in f.failed : Unregistered(x)

\* C9 as stated: the broadcast of a resubmission by the sender of a stored
\* message (the submission acknowledged with duplicated) has sent the stored
\* message to every connection of another user that was registered in the
\* conversation from its start to its end.
RetryRedeliveryAsClaimed ==
    \A f \in MessageFanouts :
        (\E a \in SuccessAcks :
            /\ a.src = f.src /\ a.n = f.n /\ a.frame.duplicated
            /\ \E e \in db_messages :
                  /\ StrUUID(e.id) = a.frame.server_message_id
                  /\ e.sender_id = user(f.src))
        => \A x \in f.owed :
              \E e \in NewMessages :
                 /\ e.to = x /\ e.src = f.src /\ e.n = f.n
                 /\ Persisted(e.frame)

\* The complete frames whose reply_to names a message that is not stored.
Dangling == {r \in SendMessages :
                /\ Complete(r.data) /\ UUID(r.data.message_id) # Invalid
                /\ r.data.reply_to # None /\ UUID(r.data.reply_to) # Invalid
                /\ \A e \in db_messages : e.id # UUID(r.data.reply_to)}

IsErrorAck(f) == f.type = "message_ack" /\ f.status = "error"

\* C11: when the insert of a new message is rejected, nothing of the
\* transaction is kept (no row, no touched conversation), the submitter is
\* sent a message_ack of status error that echoes the message_id, nothing is
\* broadcast for the frame, and the connection stays active and registered.
\* (A frame whose identifier is already stored is a duplicate: it inserts
\* nothing and is acknowledged with duplicated.)
PersistenceFailure ==
    /\ \A e \in db_messages :
          e.reply_to # None => \E p \in db_messages : p.id = e.reply_to
    /\ \A k \in Conversations :
          conv_updated[k] = Cardinality({e \in db_messages : e.conversation_id = k})
    /\ \A r \in Dangling :
          /\ Answers(r) # {} =>
                \E e \in Answers(r) :
                   /\ e.frame.type = "message_ack"
                   /\ e.frame.message_id = r.data.message_id
                   /\ \/ IsErrorAck(e.frame) /\ e.frame.error = "IntegrityError"
                      \/ IsSuccessAck(e.frame) /\ e.frame.duplicated
          /\ \A e \in Answers(r) :
                (IsErrorAck(e.frame) /\ e.frame.error = "IntegrityError") =>
                   /\ e.frame.message_id = r.data.message_id
                   /\ \A x \in sent : (x.src = r.conn /\ x.n = r.n) => x = e
                   /\ \A f \in fanouts : ~(f.src = r.conn /\ f.n = r.n)
                   /\ (nrecv[r.conn] = r.n /\ transport[r.conn] = "up") =>
                         /\ pc[r.conn] = "recv"
                         /\ state(r.conn) = "Active"
                         /\ r.conn \in active_connections[conversation_id[r.conn]]
                         /\ user_connections[r.conn] = user(r.conn)
          /\ (/\ pc[r.conn] = "ack" /\ pend[r.conn].n = r.n
              /\ pend[r.conn].reply.error = "IntegrityError")
                => pend[r.conn].then = NoFrame

\* An insert was rejected and reported, and the retry of the identifier on
\* the same connection, without the reference, was stored and acknowledged.
PersistenceWitness ==
    \E c \in AllConns :
        /\ \E e \in sent : /\ e.src = c /\ e.n = 1 /\ e.ok
                           /\ IsErrorAck(e.frame) /\ e.frame.error = "IntegrityError"
                           /\ e.frame.message_id = "m2"
        /\ \E e \in sent : /\ e.src = c /\ e.n = 2 /\ e.ok /\ e.to = c
                           /\ IsSuccessAck(e.frame) /\ ~e.frame.duplicated
                           /\ e.frame.message_id = "m2"
        /\ \E e \in db_messages : e.id = UUID("m2") /\ e.reply_to = None

\* A malformed or incomplete frame.
Malformed(data) ==
    \/ data.type = None
    \/ /\ data.type = "send_message"
       /\ ~Complete(data) \/ UUID(data.message_id) = Invalid
    \/ /\ data.type = "read_receipt"
       /\ \/ data.message_id = None
          \/ UUID(data.message_id) = Invalid
          \/ \A e \in db_messages : e.id # UUID(data.message_id)

\* C12 as stated: a malformed or incomplete frame is answered with an error
\* frame, and the connection it came on stays active and registered (as long
\* as its transport has not broken).
ProtocolFailuresLocalAsClaimed ==
    \A r \in received :
        (Malformed(r.data) /\ nrecv[r.conn] = r.n /\ transport[r.conn] # "lost") =>
           /\ pc[r.conn] \in {"ack", "recv"}
           /\ r.conn \in active_connections[conversation_id[r.conn]]
           /\ user_connections[r.conn] = user(r.conn)
           /\ pc[r.conn] = "ack" => pend[r.conn].reply.status = "error"
           /\ pc[r.conn] = "recv" =>
                 \E e \in Answers(r) : e.frame.status = "error"

\* C13 as stated: a connection whose task has ended (it is Closed) is in no
\* index of the registry.
UnregisterOnExitAsClaimed ==
    \A c \in AllConns : state(c) = "Closed" => Unregistered(c)

\* C14 as stated: the step that ends the task of one connection leaves every
\* other connection where it is and its registry membership as it is, and
\* does not make the handler of another connection fail: the set that a
\* running broadcast of another connection iterates keeps the size its
\* iterator expects (with another size the loop raises RuntimeError at its
\* next step).
IsolationAsClaimed ==
    [][\A c \in AllConns :
          (pc[c] # "done" /\ pc'[c] = "done") =>
             \A d \in AllConns \ {c} :
                /\ pc'[d] = pc[d]
                /\ (d \in active_connections'[conversation_id[d]])
                      <=> (d \in active_connections[conversation_id[d]])
                /\ user_connections'[d] = user_connections[d]
                /\ (pc[d] = "send" /\ ~SizeChanged(Registry, bc[d]))
                      => ~SizeChanged(Registry, bc[d])']_vars

\* The presence frames sent so far, and the broadcasts of manager.connect
\* that have ended.
PresenceFrames == {e \in sent : e.frame.type = "presence"}

ConnectFanouts == {f \in fanouts : f.origin = "connect"}

\* C15 as stated: every presence frame says is_online = true, names the
\* user of the registering connection and goes to another connection, at
\* most once; the broadcast of a registration has sent it to every other
\* connection that was registered in the conversation from its start to its
\* end.
PresenceAsClaimed ==
    /\ \A e \in PresenceFrames :
          /\ e.frame.is_online
          /\ e.frame.user_id = user(e.src)
          /\ e.to # e.src
          /\ e.n = 0
    /\ \A e1, e2 \in PresenceFrames :
          (e1.src = e2.src /\ e1.to = e2.to) => e1 = e2
    /\ \A f \in ConnectFanouts : \A x \in f.owed : Delivered(f, x)

\* The relays of read events that have ended, and the read frames sent.
ReadFanouts == {f \in fanouts : f.type = "read"}

ReadEvents == {e \in sent : e.frame.type = "read"}

\* C16 as stated: message_reads never holds two rows for one (message id,
\* user id) pair and a row, once stored, stays as it is; the relay of a
\* read_receipt that names a stored message has sent one read frame to every
\* other connection that was registered in the conversation from its start
\* to its end.
ReadReceiptsAsClaimed ==
    [][/\ \A r1, r2 \in db_reads' :
             (r1.message_id = r2.message_id /\ r1.user_id = r2.user_id) => r1 = r2
       /\ db_reads \subseteq db_reads'
       /\ \A e1, e2 \in ReadEvents' :
             (e1.src = e2.src /\ e1.n = e2.n /\ e1.to = e2.to) => e1 = e2
       /\ \A f \in ReadFanouts' : \A x \in f.owed : Delivered(f, x)']_vars

\* The connections a broadcast that has ended tried to send its frame to.
Attempted(f) ==
    {e.to : e \in {s \in sent : s.src = f.src /\ s.n = f.n /\ s.frame.type = f.type}}

\* C17 as stated: while a broadcast is suspended on a send, the set it
\* iterates is the one it started on; a broadcast that has ended did not
\* raise, tried no connection outside the set it started on, tried every
\* connection it owed the frame, and unregistered every connection whose
\* send failed.
SnapshotFanoutAsClaimed ==
    /\ \A c \in AllConns :
          pc[c] = "send" => active_connections[bc[c].conv] = bc[c].snap
    /\ \A f \in fanouts :
          /\ ~f.raised
          /\ Attempted(f) \subseteq f.snap
          /\ f.owed \subseteq Attempted(f)
          /\ \A x \in f.failed : Unregistered(x)

\* C18 as stated: with a consumer whose sends may never complete, a
\* broadcast that is suspended on a send still comes to the other
\* recipients it has to visit, and the task that runs it gets back to
\* waiting for its next frame (or ends).
NoThrottlingAsClaimed ==
    \A c \in FanPool :
       /\ (pc[c] = "send") ~> (pc[c] # "send")
       /\ \A y \in FanPool \ Slow :
             (pc[c] = "send" /\ y \in Targets(Registry, bc[c], MustVisit(Registry, bc[c])))
                ~> (pc[c] # "send" \/ y \in bc[c].seen)

\* C19: manager.disconnect of a connection that is in no index returns the
\* registry as it is, and applied twice it returns what it returns applied
\* once; a task that ends when its connection has already been unregistered
\* (by the cleanup of a broadcast) leaves the three indices as they were.
UnregisterIdempotent ==
    [][\A c \in AllConns :
          LET k == conversation_id[c]
              once == disconnect(Registry, c, k)
          IN  /\ Unregistered(c) => once = Registry
              /\ disconnect(once, c, k) = once
              /\ (Unregistered(c) /\ pc[c] # "done" /\ pc'[c] = "done")
                    => UNCHANGED <<active_connections, user_connections,
                                   user_websockets>>]_vars

\* A connection whose send failed in a broadcast that returned, so that the
\* cleanup unregistered it, and whose own task has ended after that.
UnregisterTwiceWitness ==
    \E c \in AllConns : \E f \in fanouts :
        /\ ~f.raised
        /\ c \in f.failed
        /\ pc[c] = "done"
        /\ Unregistered(c)
        /\ active_connections[conversation_id[c]] # {}

\* The place of a lifecycle state in the order of the states.
Rank(s) ==
    CASE s = "Connecting" -> 0
      [] s = "Authenticated" -> 1
      [] s = "Authorized" -> 2
      [] s = "Active" -> 3
      [] s = "Closed" -> 4

\* C20: every change of a connection's state goes to the next state of
\* Connecting, Authenticated, Authorized, Active, Closed, or to Closed; a
\* connection enters the registry only in the step from Authorized to
\* Active, and one that is Closed stays Closed, has no further frame handled
\* and is not registered again.
LifecycleOrder ==
    [][\A c \in AllConns :
          LET k == conversation_id[c]
              old == state(c)
              new == state(c)'
          IN  /\ new # old => (Rank(new) = Rank(old) + 1 \/ new = "Closed")
              /\ (c \notin active_connections[k] /\ c \in active_connections'[k])
                    => (old = "Authorized" /\ new = "Active")
              /\ user_connections[c] = None /\ user_connections'[c] # None
                    => (old = "Authorized" /\ new = "Active")
              /\ nrecv'[c] # nrecv[c] => (old = "Active" /\ nrecv'[c] = nrecv[c] + 1)
              /\ old = "Closed" => (new = "Closed" /\ nrecv'[c] = nrecv[c])]_vars

\* One connection has been through the five states and had a frame handled;
\* another one was closed before it was accepted, and a third one after it
\* was accepted and before it was registered.
LifecycleWitness ==
    /\ \E c \in AllConns :
          /\ state(c) = "Closed"
          /\ accepted[c]
          /\ nrecv[c] > 0
          /\ \E e \in PresenceFrames : e.src = c
    /\ \E c \in AllConns : state(c) = "Closed" /\ ~accepted[c]
    /\ \E c \in AllConns :
          state(c) = "Closed" /\ accepted[c] /\ closed_with[c] # NotClosed

\* The replies of send_personal_message whose send failed.
FailedReplies == {e \in sent : e.to = e.src /\ e.frame.type = "message_ack" /\ ~e.ok}

\* C21: in the step in which a reply of send_personal_message fails, the
\* three indices stay as they are (the submitter is not unregistered), the
\* submitter's task does not end, and when the reply was a success
\* acknowledgment with a new_message to broadcast, that broadcast starts: the
\* task is suspended in its first send, or the broadcast has ended at once
\* for want of recipients.
SendToFireAndForget ==
    [][\A c \in AllConns :
          (\E e \in FailedReplies' \ FailedReplies : e.src = c) =>
             /\ pc[c] = "ack"
             /\ UNCHANGED <<active_connections, user_connections, user_websockets>>
             /\ pc'[c] \in {"send", "recv"}
             /\ pend[c].then = NoFrame => pc'[c] = "recv"
             /\ pend[c].then # NoFrame =>
                   \/ pc'[c] = "send" /\ bc'[c].message = pend[c].then
                                      /\ bc'[c].n = pend[c].n
                   \/ /\ pc'[c] = "recv"
                      /\ \E f \in fanouts' \ fanouts :
                            f.src = c /\ f.n = pend[c].n /\ ~f.raised
                                      /\ f.type = "new_message"]_vars

\* A success acknowledgment failed, the new_message of the same frame was
\* delivered all the same, and the submitter is still registered.
SendToWitness ==
    \E e \in FailedReplies : \E d \in sent :
        /\ e.frame.status = "success"
        /\ d.src = e.src /\ d.n = e.n
        /\ d.frame.type = "new_message" /\ d.ok
        /\ ~Unregistered(e.src)

\* C22 as stated: a connection that is Closed holds no database session
\* that was opened for it and not closed, whichever way it was closed.
SessionScopingAsClaimed ==
    \A c \in AllConns : state(c) = "Closed" => sessions[c] = 0

\* C23 as stated: a new_message frame delivered to a connection carries a message
\* whose stored conversation is the conversation the connection is bound to.
ConfinementAsClaimed ==
    \A e \in {d \in NewMessages : d.ok} :
        /\ e.frame.msg_conversation_id = conversation_id[e.to]
        /\ \E m \in db_messages :
              /\ m.id = UUID(e.frame.id)
              /\ m.conversation_id = conversation_id[e.to]

\* C24 as stated: no new_message frame is delivered to a connection of the
\* user stored as the sender of the message it carries.
AuthorExcludedAsClaimed ==
    \A e \in {d \in NewMessages : d.ok} : user(e.to) # e.frame.sender_id

\* C25 as stated: the submitter of a send_message frame is sent one reply
\* for it, a message_ack or a message_error, once the frame has been handled,
\* never two, and never a success and an error acknowledgment.
OneReplyAsClaimed ==
    \A r \in SendMessages :
        /\ Cardinality(Answers(r)) <= 1
        /\ \A e \in Answers(r) : e.frame.type \in {"message_ack", "message_error"}
        /\ ~ \E e1, e2 \in Answers(r) :
                IsSuccessAck(e1.frame) /\ e2.frame.status = "error"
        /\ (nrecv[r.conn] = r.n /\ pc[r.conn] \in {"recv", "send"}) => Answers(r) # {}

\* The frame received in a step, if it is a complete send_message frame whose
\* identifier is already stored.
Resubmitted(r) ==
    /\ r.data.type = "send_message"
    /\ Complete(r.data)
    /\ UUID(r.data.message_id) # Invalid
    /\ FindMessageById(db_messages, UUID(r.data.message_id)) # {}

\* C26: the step that handles a send_message frame whose identifier is
\* stored leaves table messages and the conversation's updated_at as they
\* are, and the new_message it goes on to broadcast carries the stored row;
\* no step ever changes or removes a stored row, and every new_message frame
\* sent carries the content, sender, conversation and reply_to of the stored
\* row of its identifier.
DuplicatesDoNotMutate ==
    [][/\ \A r \in received' \ received :
             Resubmitted(r) =>
                LET e == CHOOSE e \in FindMessageById(db_messages, UUID(r.data.message_id)) : TRUE
                IN  /\ db_messages' = db_messages
                    /\ conv_updated' = conv_updated
                    /\ pend'[r.conn].then = NewMessageFrame(conversation_id[r.conn], e)
                    /\ pend'[r.conn].reply = SuccessAck(r.data.message_id, e, TRUE)
       /\ db_messages \subseteq db_messages'
       /\ \A e \in NewMessages' : \E m \in db_messages' :
             /\ m.id = UUID(e.frame.id)
             /\ m.content = e.frame.content
             /\ m.sender_id = e.frame.sender_id
             /\ m.conversation_id = e.frame.msg_conversation_id
             /\ e.frame.reply_to = (IF m.reply_to = None THEN None ELSE StrUUID(m.reply_to))]_vars

\* A stored message was resubmitted by another user with another content,
\* and the re-broadcast delivered the stored content.
DuplicateWitness ==
    \E r \in SendMessages : \E a \in Answers(r) : \E m \in db_messages :
        /\ a.frame.duplicated
        /\ m.id = UUID(r.data.message_id)
        /\ m.content # r.data.content
        /\ m.sender_id # user(r.conn)
        /\ \E d \in NewMessages :
              d.src = r.conn /\ d.n = r.n /\ d.ok /\ d.frame.content = m.content
        /\ conv_updated[m.conversation_id] = 1

\* C27 as stated: a connection whose receive loop is running is in the set
\* of its conversation, and a broadcast of a new_message that has ended has
\* sent the frame to every connection it owed it.
ActiveImpliesRegisteredAsClaimed ==
    /\ \A c \in AllConns :
          state(c) = "Active" => c \in active_connections[conversation_id[c]]
    /\ \A f \in fanouts :
          f.type = "new_message" => f.owed \subseteq Attempted(f)

====
